---- MODULE Spec2Model ----
(***************************************************************************)
(* A model of benchmark.py: the ZeroMQ frame-size benchmark.               *)
(*                                                                         *)
(*   start_server / _server_thread : the REP echo responder (own thread)   *)
(*   run_client_test               : one run (REQ socket, chunking,        *)
(*                                   warm-up exchange, timed exchange)     *)
(*   run_benchmark                 : chunk sizes x runs, averaging         *)
(*   main                          : start, benchmark, best results,       *)
(*                                   cleanup                               *)
(*                                                                         *)
(* Byte strings are sequences of one-character strings.  Floating-point    *)
(* values are exact rationals <<numerator, denominator>> in lowest terms;  *)
(* the elapsed wall time of a timed exchange is a whole number of seconds  *)
(* chosen by the environment.                                              *)
(***************************************************************************)
EXTENDS Integers, Sequences, FiniteSets, TLC

\* ------------------------------------------------------------------ bounds
MaxHeader  == 1      \* header_size ranges over 0..MaxHeader
MaxData    == 2      \* data_size ranges over 0..MaxData
MaxChunk   == 2      \* chunk sizes range over -1..MaxChunk
MaxSizes   == 2      \* the chunk_sizes list has at most MaxSizes entries
MaxRuns    == 2      \* num_runs ranges over 0..MaxRuns
MaxElapsed == 1      \* elapsed seconds of a timed exchange: 0..MaxElapsed
MaxLen     == 4      \* payload length in the chunker specification
MaxResults == 3      \* length of the results list in the best-result specification
MaxMetric  == 2      \* latency and throughput values there: 1..MaxMetric

ByteVals == {"D", "H"}

\* ---------------------------------------------------------- pure helpers
Min(a, b) == IF a <= b THEN a ELSE b

\* bytes * n
Repeat(b, n) == [k \in 1..n |-> b]

\* Python's range(start, stop, step) as the list of its values, step # 0.
RECURSIVE RangeFrom(_, _, _)
RangeFrom(i, stop, step) ==
    IF step > 0 /\ i < stop THEN <<i>> \o RangeFrom(i + step, stop, step)
    ELSE IF step < 0 /\ i > stop THEN <<i>> \o RangeFrom(i + step, stop, step)
    ELSE <<>>

\* range() raises ValueError when its step is zero.
ChunkFaultNever(chunk_size) == FALSE
ChunkFault(chunk_size) == chunk_size = 0

\* data[lo:hi] for 0 <= lo <= hi (0-based, half-open, clamped to len(data)).
Slice(data, lo, hi) == SubSeq(data, lo + 1, Min(hi, Len(data)))

\* the chunk data[i:i + chunk_size]
ChunkAtShort(data, i, chunk_size) == Slice(data, i, i + chunk_size - 1)
ChunkAt(data, i, chunk_size) == Slice(data, i, i + chunk_size)

\* chunks = [data[i:i+chunk_size] for i in range(0, len(data), chunk_size)]
Chunks(data, chunk_size) ==
    LET starts == RangeFrom(0, Len(data), chunk_size)
    IN  [k \in 1..Len(starts) |-> ChunkAt(data, starts[k], chunk_size)]

\* frames = [header] + chunks
FramesNoHeader(header, data, chunk_size) == Chunks(data, chunk_size)
Frames(header, data, chunk_size) == <<header>> \o Chunks(data, chunk_size)

RECURSIVE SumLen(_)
SumLen(fs) == IF fs = <<>> THEN 0 ELSE Len(Head(fs)) + SumLen(Tail(fs))

\* total_bytes = sum(len(frame) for frame in frames)
TotalBytes(fs) == SumLen(fs)

RECURSIVE Concat(_)
Concat(fs) == IF fs = <<>> THEN <<>> ELSE Head(fs) \o Concat(Tail(fs))

\* ------------------------------------------------------------- rationals
RECURSIVE GCD(_, _)
GCD(a, b) == IF b = 0 THEN a ELSE GCD(b, a % b)

Norm(n, d) == LET g == GCD(n, d) IN <<n \div g, d \div g>>

RatAdd(a, b) ==
    LET l == (a[2] \div GCD(a[2], b[2])) * b[2]
    IN  Norm(a[1] * (l \div a[2]) + b[1] * (l \div b[2]), l)

RatLess(a, b) == a[1] * b[2] < b[1] * a[2]

RECURSIVE RatSum(_)
RatSum(xs) == IF xs = <<>> THEN <<0, 1>> ELSE RatAdd(Head(xs), RatSum(Tail(xs)))

\* statistics.mean(xs), xs non-empty
Mean(xs) == LET s == RatSum(xs) IN Norm(s[1], s[2] * Len(xs))

\* latency_ms = elapsed_time * 1000
LatencyMs(elapsed) == <<elapsed * 1000, 1>>

\* throughput_mbps = (total_bytes * 8 / 1000000) / elapsed_time, elapsed # 0
ThroughputMbps(total_bytes, elapsed) == Norm(total_bytes * 8, 1000000 * elapsed)

BenchmarkResult(cs, nf, lat, thr) ==
    [chunk_size |-> cs, num_frames |-> nf, latency_ms |-> lat, throughput_mbps |-> thr]

\* ------------------------------------------------------------------ state
VARIABLES
    \* run_benchmark's arguments
    header_size, data_size, chunk_sizes, num_runs,
    \* main thread
    pc,           \* position of the main thread
    fault,        \* the exception propagating out of the try block, or "none"
    ci,           \* 1-based index of the current chunk size (the outer for loop)
    ri,           \* i of the inner for loop: runs completed for this chunk size
    frames,       \* run_client_test's frames
    sock,         \* run_client_test's socket: the id of its connection, 0 if none
    reply,        \* what the last recv_multipart of the client returned
    run_results,  \* run_benchmark's run_results
    results,      \* run_benchmark's results
    best,         \* <<min_latency, max_throughput>> of main, <<>> before
    \* sockets, contexts and the wire
    nconn,        \* number of REQ sockets created so far
    open,         \* ids of the REQ sockets not closed
    contexts,     \* the zmq contexts created
    termed,       \* the zmq contexts terminated
    reqQ,         \* requests sent and not yet received by the responder
    repQ,         \* replies sent and not yet received by the client
    \* responder thread
    srvPc,        \* position of _server_thread
    srvMsg,       \* _server_thread's frames, with the envelope of the request
    \* history (not read by any action guard)
    nSent,        \* requests the main thread has sent
    nRecv,        \* replies the main thread has received
    runLog,       \* the socket operations of the current run_client_test call
    runOrder,     \* the chunk index of every run_client_test call, in call order
    \* the chunker specification
    cdata, csize, cout, cdone

mvars == <<header_size, data_size, chunk_sizes, num_runs, pc, fault, ci, ri, frames,
           sock, reply, run_results, results, best, nconn, open, contexts, termed,
           reqQ, repQ, srvPc, srvMsg, nSent, nRecv, runLog, runOrder>>
cvars == <<cdata, csize, cout, cdone>>
vars  == <<mvars, cvars>>

\* what the main thread owns
drvVars == <<pc, fault, ci, ri, frames, sock, reply, run_results, results, best,
             nconn, open, nSent, nRecv, runLog, runOrder>>

ChunkVals == (0 - 1)..MaxChunk

ChunkSizeLists == UNION {[1..n -> ChunkVals] : n \in 0..MaxSizes}

\* header = b"H" * header_size ; data = b"D" * data_size
header == Repeat("H", header_size)
data   == Repeat("D", data_size)

\* the loop variable chunk_size of run_benchmark
chunk_size == chunk_sizes[ci]

Log(ev) == Append(runLog, [ev |-> ev, conn |-> sock])

\* the context _server_thread creates and the one its socket belongs to
srvContext == <<"server", 0>>

\* zmq.Context.instance(): the process-wide context, created on first use
instanceContext == <<"instance", 0>>

ChunkIdle ==
    /\ cdata = <<>>
    /\ csize = 1
    /\ cout = <<>>
    /\ cdone = TRUE

Init ==
    /\ header_size \in 0..MaxHeader
    /\ data_size \in 0..MaxData
    /\ chunk_sizes \in ChunkSizeLists
    /\ num_runs \in 0..MaxRuns
    /\ pc = "start"
    /\ fault = "none"
    /\ ci = 1
    /\ ri = 0
    /\ frames = <<>>
    /\ sock = 0
    /\ reply = <<>>
    /\ run_results = <<>>
    /\ results = <<>>
    /\ best = <<>>
    /\ nconn = 0
    /\ open = {}
    /\ contexts = {}
    /\ termed = {}
    /\ reqQ = <<>>
    /\ repQ = <<>>
    /\ srvPc = "unstarted"
    /\ srvMsg = <<>>
    /\ nSent = 0
    /\ nRecv = 0
    /\ runLog = <<>>
    /\ runOrder = <<>>
    /\ ChunkIdle

\* ------------------------------------------------------------ main thread

\* main: start_server(args.port); time.sleep(1); then run_benchmark's prologue
StartServer ==
    /\ pc = "start"
    /\ pc' = "bench"
    /\ srvPc' = "init"
    /\ UNCHANGED <<header_size, data_size, chunk_sizes, num_runs, fault, ci, ri, frames,
                   sock, reply, run_results, results, best, nconn, open, contexts,
                   termed, reqQ, repQ, srvMsg, nSent, nRecv, runLog, runOrder, cvars>>

\* run_client_test, up to the warm-up: context, socket, connect, chunks, frames
RunStart ==
    /\ pc = "bench"
    /\ ci <= Len(chunk_sizes)
    /\ ri < num_runs
    /\ nconn' = nconn + 1
    /\ sock' = nconn + 1
    /\ open' = open \cup {nconn + 1}
    /\ contexts' = contexts \cup {<<"client", nconn + 1>>}
    /\ runLog' = <<[ev |-> "connect", conn |-> nconn + 1]>>
    /\ runOrder' = Append(runOrder, ci)
    /\ IF ChunkFault(chunk_size)
         THEN /\ fault' = "ValueError"
              /\ pc' = "cleanup"
              /\ UNCHANGED frames
         ELSE /\ frames' = Frames(header, data, chunk_size)
              /\ pc' = "warm_send"
              /\ UNCHANGED fault
    /\ UNCHANGED <<header_size, data_size, chunk_sizes, num_runs, ci, ri, reply,
                   run_results, results, best, termed, reqQ, repQ, srvPc, srvMsg,
                   nSent, nRecv, cvars>>

\* socket.send_multipart(frames) on the REQ socket
Send(next) ==
    /\ reqQ' = Append(reqQ, [conn |-> sock, seq |-> nSent + 1, frames |-> frames])
    /\ nSent' = nSent + 1
    /\ runLog' = Log(next)
    /\ UNCHANGED <<header_size, data_size, chunk_sizes, num_runs, fault, ci, ri, frames,
                   sock, reply, run_results, results, best, nconn, open, contexts,
                   termed, repQ, srvPc, srvMsg, nRecv, runOrder, cvars>>

\* the warm-up round: send
WarmSend ==
    /\ pc = "warm_send"
    /\ pc' = "warm_recv"
    /\ Send("warm_send")

\* a reply for this socket has arrived
ReplyReady == repQ # <<>> /\ Head(repQ).conn = sock

\* the warm-up round: socket.recv_multipart() blocks until the reply is there
WarmRecvNoWait ==
    /\ pc = "warm_recv"
    /\ pc' = "timed_send"
    /\ runLog' = Log("warm_recv")
    /\ UNCHANGED <<header_size, data_size, chunk_sizes, num_runs, fault, ci, ri, frames,
                   sock, reply, run_results, results, best, nconn, open, contexts,
                   termed, reqQ, repQ, srvPc, srvMsg, nSent, nRecv, runOrder, cvars>>

WarmRecvTimeout ==
    /\ pc = "warm_recv"
    /\ IF ReplyReady
         THEN /\ reply' = Head(repQ).frames
              /\ repQ' = Tail(repQ)
              /\ nRecv' = nRecv + 1
              /\ pc' = "timed_send"
              /\ runLog' = Log("warm_recv")
         ELSE /\ pc' = "warm_send"
              /\ UNCHANGED <<reply, repQ, nRecv, runLog>>
    /\ UNCHANGED <<header_size, data_size, chunk_sizes, num_runs, fault, ci, ri, frames,
                   sock, run_results, results, best, nconn, open, contexts, termed,
                   reqQ, srvPc, srvMsg, nSent, runOrder, cvars>>

WarmRecv ==
    /\ pc = "warm_recv"
    /\ ReplyReady
    /\ reply' = Head(repQ).frames
    /\ repQ' = Tail(repQ)
    /\ nRecv' = nRecv + 1
    /\ pc' = "timed_send"
    /\ runLog' = Log("warm_recv")
    /\ UNCHANGED <<header_size, data_size, chunk_sizes, num_runs, fault, ci, ri, frames,
                   sock, run_results, results, best, nconn, open, contexts, termed,
                   reqQ, srvPc, srvMsg, nSent, runOrder, cvars>>

\* the test round: start_time = time.time(); socket.send_multipart(frames)
TimedSend ==
    /\ pc = "timed_send"
    /\ pc' = "timed_recv"
    /\ Send("timed_send")

\* run_results.append(result)
AppendRun(rs, r) == Append(rs, r)

\* socket.close()
CloseNothing(socks, s) == socks
Close(socks, s) == socks \ {s}

\* the test round: recv_multipart, end_time, the metrics, socket.close(), return;
\* then run_benchmark's run_results.append(result) and time.sleep(0.5)
TimedRecv ==
    /\ pc = "timed_recv"
    /\ ReplyReady
    /\ reply' = Head(repQ).frames
    /\ repQ' = Tail(repQ)
    /\ nRecv' = nRecv + 1
    /\ \E elapsed \in 0..MaxElapsed :
         IF elapsed = 0
           THEN \* ZeroDivisionError in throughput_mbps, before socket.close()
                /\ fault' = "ZeroDivisionError"
                /\ pc' = "cleanup"
                /\ runLog' = Log("timed_recv")
                /\ UNCHANGED <<open, sock, run_results, ri>>
           ELSE /\ open' = Close(open, sock)
                /\ sock' = 0
                /\ runLog' = Append(Log("timed_recv"), [ev |-> "close", conn |-> sock])
                /\ run_results' = AppendRun(run_results,
                       BenchmarkResult(chunk_size, Len(frames), LatencyMs(elapsed),
                                       ThroughputMbps(TotalBytes(frames), elapsed)))
                /\ ri' = ri + 1
                /\ pc' = "bench"
                /\ UNCHANGED fault
    /\ UNCHANGED <<header_size, data_size, chunk_sizes, num_runs, ci, frames, results,
                   best, nconn, contexts, termed, reqQ, srvPc, srvMsg, nSent,
                   runOrder, cvars>>

RECURSIVE MapField(_, _)
MapField(rs, f) == IF rs = <<>> THEN <<>> ELSE <<Head(rs)[f]>> \o MapField(Tail(rs), f)

\* results.append(BenchmarkResult(...)) of run_benchmark
PrependResult(rs, r) == <<r>> \o rs
AppendResult(rs, r) == Append(rs, r)

\* the averaged BenchmarkResult of one chunk size
Averaged(cs, rr) ==
    BenchmarkResult(cs, rr[1].num_frames, Mean(MapField(rr, "latency_ms")),
                    Mean(MapField(rr, "throughput_mbps")))

\* the inner loop is exhausted: average the runs, append, next chunk size
Average ==
    /\ pc = "bench"
    /\ ci <= Len(chunk_sizes)
    /\ ri >= num_runs
    /\ IF run_results = <<>>
         THEN \* statistics.mean of no data raises StatisticsError
              /\ fault' = "StatisticsError"
              /\ pc' = "cleanup"
              /\ UNCHANGED <<results, ci, ri, run_results>>
         ELSE /\ results' = AppendResult(results, Averaged(chunk_size, run_results))
              /\ ci' = ci + 1
              /\ ri' = 0
              /\ run_results' = <<>>
              /\ UNCHANGED <<fault, pc>>
    /\ UNCHANGED <<header_size, data_size, chunk_sizes, num_runs, frames, sock, reply,
                   best, nconn, open, contexts, termed, reqQ, repQ, srvPc, srvMsg,
                   nSent, nRecv, runLog, runOrder, cvars>>

\* the outer loop is exhausted: return results
Return ==
    /\ pc = "bench"
    /\ ci > Len(chunk_sizes)
    /\ pc' = "report"
    /\ UNCHANGED <<header_size, data_size, chunk_sizes, num_runs, fault, ci, ri, frames,
                   sock, reply, run_results, results, best, nconn, open, contexts,
                   termed, reqQ, repQ, srvPc, srvMsg, nSent, nRecv, runLog, runOrder,
                   cvars>>

RECURSIVE MinLatencyLastFrom(_, _, _)
MinLatencyLastFrom(rs, b, j) ==
    IF j > Len(rs) THEN b
    ELSE MinLatencyLastFrom(rs,
             IF ~RatLess(rs[b].latency_ms, rs[j].latency_ms) THEN j ELSE b, j + 1)

\* min(results, key=lambda x: x.latency_ms): the index of the result returned;
\* b is the index of the best so far, j the next index to look at
RECURSIVE MinLatencyFrom(_, _, _)
MinLatencyFrom(rs, b, j) ==
    IF j > Len(rs) THEN b
    ELSE MinLatencyFrom(rs,
             IF RatLess(rs[j].latency_ms, rs[b].latency_ms) THEN j ELSE b, j + 1)

\* max(results, key=lambda x: x.throughput_mbps): the index of the result returned
RECURSIVE MaxThroughputFrom(_, _, _)
MaxThroughputFrom(rs, b, j) ==
    IF j > Len(rs) THEN b
    ELSE MaxThroughputFrom(rs,
             IF RatLess(rs[b].throughput_mbps, rs[j].throughput_mbps) THEN j ELSE b,
             j + 1)

MinLatencyLast(rs) == MinLatencyLastFrom(rs, 1, 2)
MinLatency(rs) == MinLatencyFrom(rs, 1, 2)

MaxThroughput(rs) == MaxThroughputFrom(rs, 1, 2)

\* main: the results table, then min_latency and max_throughput
Report ==
    /\ pc = "report"
    /\ pc' = "cleanup"
    /\ IF results = <<>>
         THEN \* min() of an empty list raises ValueError
              /\ fault' = "ValueError"
              /\ UNCHANGED best
         ELSE /\ best' = <<MinLatency(results), MaxThroughput(results)>>
              /\ UNCHANGED fault
    /\ UNCHANGED <<header_size, data_size, chunk_sizes, num_runs, ci, ri, frames, sock,
                   reply, run_results, results, nconn, open, contexts, termed, reqQ,
                   repQ, srvPc, srvMsg, nSent, nRecv, runLog, runOrder, cvars>>

\* main's finally: zmq.Context.instance().term(); time.sleep(0.5); the process
\* ends (with the fault, if any), and the daemon thread with it
Cleanup ==
    /\ pc = "cleanup"
    /\ pc' = "exit"
    /\ contexts' = contexts \cup {instanceContext}
    /\ termed' = termed \cup {instanceContext}
    /\ UNCHANGED <<header_size, data_size, chunk_sizes, num_runs, fault, ci, ri, frames,
                   sock, reply, run_results, results, best, nconn, open, reqQ, repQ,
                   srvPc, srvMsg, nSent, nRecv, runLog, runOrder, cvars>>

\* ------------------------------------------------------- responder thread

\* context = zmq.Context(); socket = context.socket(zmq.REP); socket.bind(...)
SrvBind ==
    /\ srvPc = "init"
    /\ pc # "exit"
    /\ contexts' = contexts \cup {srvContext}
    /\ srvPc' = "recv"
    /\ UNCHANGED <<header_size, data_size, chunk_sizes, num_runs, pc, fault, ci, ri,
                   frames, sock, reply, run_results, results, best, nconn, open, termed,
                   reqQ, repQ, srvMsg, nSent, nRecv, runLog, runOrder, cvars>>

\* frames = socket.recv_multipart(): blocks for a request; raises
\* ContextTerminated, which ends the loop, once the socket's context is terminated
SrvRecv ==
    /\ srvPc = "recv"
    /\ pc # "exit"
    /\ IF srvContext \in termed
         THEN /\ srvPc' = "done"
              /\ UNCHANGED <<srvMsg, reqQ>>
         ELSE /\ reqQ # <<>>
              /\ srvMsg' = Head(reqQ)
              /\ reqQ' = Tail(reqQ)
              /\ srvPc' = "send"
    /\ UNCHANGED <<header_size, data_size, chunk_sizes, num_runs, pc, fault, ci, ri,
                   frames, sock, reply, run_results, results, best, nconn, open,
                   contexts, termed, repQ, nSent, nRecv, runLog, runOrder, cvars>>

\* what send_multipart(frames) puts on the wire for the frames received
EchoReversed(fs) == [k \in 1..Len(fs) |-> fs[Len(fs) + 1 - k]]
Echo(fs) == fs

\* socket.send_multipart(frames): the reply goes to the peer of the request
SrvSend ==
    /\ srvPc = "send"
    /\ pc # "exit"
    /\ IF srvContext \in termed
         THEN /\ srvPc' = "done"
              /\ UNCHANGED <<srvMsg, repQ>>
         ELSE /\ repQ' = Append(repQ, [srvMsg EXCEPT !.frames = Echo(srvMsg.frames)])
              /\ srvMsg' = <<>>
              /\ srvPc' = "recv"
    /\ UNCHANGED <<header_size, data_size, chunk_sizes, num_runs, pc, fault, ci, ri,
                   frames, sock, reply, run_results, results, best, nconn, open,
                   contexts, termed, reqQ, nSent, nRecv, runLog, runOrder, cvars>>

\* the thread dies of any exception other than ContextTerminated (bind on a port
\* in use, a transport error): nothing handles it and nothing restarts the thread
SrvDie ==
    /\ srvPc \in {"init", "recv", "send"}
    /\ pc # "exit"
    /\ srvPc' = "dead"
    /\ UNCHANGED <<header_size, data_size, chunk_sizes, num_runs, pc, fault, ci, ri,
                   frames, sock, reply, run_results, results, best, nconn, open,
                   contexts, termed, reqQ, repQ, srvMsg, nSent, nRecv, runLog, runOrder,
                   cvars>>

Next ==
    \/ StartServer
    \/ RunStart
    \/ WarmSend
    \/ WarmRecv
    \/ TimedSend
    \/ TimedRecv
    \/ Average
    \/ Return
    \/ Report
    \/ Cleanup
    \/ SrvBind
    \/ SrvRecv
    \/ SrvSend
    \/ SrvDie

Spec == Init /\ [][Next]_vars

\* ------------------------------------------------- chunker specification
\* run_client_test's chunking applied to any payload and any chunk size >= 1

Payloads == UNION {[1..n -> ByteVals] : n \in 0..MaxLen}

MainIdle ==
    /\ header_size = 0
    /\ data_size = 0
    /\ chunk_sizes = <<>>
    /\ num_runs = 0
    /\ pc = "exit"
    /\ fault = "none"
    /\ ci = 1
    /\ ri = 0
    /\ frames = <<>>
    /\ sock = 0
    /\ reply = <<>>
    /\ run_results = <<>>
    /\ results = <<>>
    /\ best = <<>>
    /\ nconn = 0
    /\ open = {}
    /\ contexts = {}
    /\ termed = {}
    /\ reqQ = <<>>
    /\ repQ = <<>>
    /\ srvPc = "unstarted"
    /\ srvMsg = <<>>
    /\ nSent = 0
    /\ nRecv = 0
    /\ runLog = <<>>
    /\ runOrder = <<>>

ChunkInit ==
    /\ cdata \in Payloads
    /\ csize \in 1..(MaxLen + 1)
    /\ cout = <<>>
    /\ cdone = FALSE
    /\ MainIdle

ChunkStep ==
    /\ ~cdone
    /\ cout' = Chunks(cdata, csize)
    /\ cdone' = TRUE
    /\ UNCHANGED <<cdata, csize, mvars>>

ChunkNext == ChunkStep

SpecChunk == ChunkInit /\ [][ChunkNext]_vars

\* --------------------------------------------- best-result specification
\* main's selection of the best results applied to any non-empty results list

Metrics == {<<m, 1>> : m \in 1..MaxMetric}

ResultRecords == {BenchmarkResult(1, 2, l, t) : l \in Metrics, t \in Metrics}

ResultLists == UNION {[1..n -> ResultRecords] : n \in 1..MaxResults}

BestInit ==
    /\ header_size = 0
    /\ data_size = 1
    /\ chunk_sizes = <<>>
    /\ num_runs = 1
    /\ pc = "report"
    /\ fault = "none"
    /\ ci = 1
    /\ ri = 0
    /\ frames = <<>>
    /\ sock = 0
    /\ reply = <<>>
    /\ run_results = <<>>
    /\ results \in ResultLists
    /\ best = <<>>
    /\ nconn = 0
    /\ open = {}
    /\ contexts = {}
    /\ termed = {}
    /\ reqQ = <<>>
    /\ repQ = <<>>
    /\ srvPc = "recv"
    /\ srvMsg = <<>>
    /\ nSent = 0
    /\ nRecv = 0
    /\ runLog = <<>>
    /\ runOrder = <<>>
    /\ ChunkIdle

BestNext == Report

SpecBest == BestInit /\ [][BestNext]_vars

\* ------------------------------------------------------------ properties

Range(f) == {f[k] : k \in DOMAIN f}

Last(q) == q[Len(q)]

\* every BenchmarkResult in existence: the per-run ones and the averaged ones
AllResults == Range(run_results) \cup Range(results)

\* the main thread is inside run_client_test's exchanges
InExchange == pc \in {"warm_send", "warm_recv", "timed_send", "timed_recv"}

\* the smallest k with k * b >= a, for a >= 0 and b >= 1
CeilDiv(a, b) == CHOOSE k \in 0..a : k * b >= a /\ (k = 0 \/ (k - 1) * b < a)

\* C1: for every payload and every chunk size >= 1 the chunks concatenate, in
\* order, to the payload; every chunk but the last has exactly chunk_size bytes
\* and the last has between 1 and chunk_size bytes (no chunk is empty).
C1_ChunksPartitionPayload ==
    cdone =>
        /\ Concat(cout) = cdata
        /\ \A k \in 1..(Len(cout) - 1) : Len(cout[k]) = csize
        /\ cout # <<>> => Len(Last(cout)) \in 1..csize

C1_Witness ==
    /\ cdone
    /\ Len(cout) >= 2
    /\ Len(Last(cout)) < csize
    /\ Range(cdata) = ByteVals

\* C2: for chunk_size >= 1 every per-run result and every averaged result has
\* num_frames = 1 + ceil(data_size / chunk_size).
C2_NumFrames ==
    \A r \in AllResults :
        r.chunk_size >= 1 => r.num_frames = 1 + CeilDiv(data_size, r.chunk_size)

C2_Witness ==
    /\ data_size = 1
    /\ num_runs = 2
    /\ results # <<>>
    /\ results[1].chunk_size = 2
    /\ results[1].num_frames = 2

\* C3: the reply the client receives is the frame set it sent: same count, same
\* order, same contents; so is every reply on the wire and the message the
\* responder holds between its receive and its send.
C3_EchoIdentity ==
    /\ \A k \in 1..Len(repQ) : repQ[k].frames = frames
    /\ srvMsg # <<>> => srvMsg.frames = frames
    /\ (runLog # <<>> /\ Last(runLog).ev \in {"warm_recv", "timed_recv", "close"})
           => reply = frames

C3_Witness ==
    /\ pc = "timed_send"
    /\ header_size = 1
    /\ Len(frames) = 3
    /\ reply = frames

\* C4: once main's cleanup has torn the context down after a benchmark that
\* ran to its end, a responder that is still in its loop has had its own
\* context terminated (so that its blocking receive fails with
\* ContextTerminated and the loop ends).
C4_TeardownStopsResponder ==
    (pc = "exit" /\ fault = "none" /\ srvPc \in {"recv", "send"}) => srvContext \in termed

\* C5: at most one exchange is outstanding: a request is sent only when every
\* earlier one is answered, both sides alternate send and receive, and a reply
\* on its way to the client answers the request the client sent last.
Outstanding == Len(reqQ) + Len(repQ) + (IF srvMsg # <<>> THEN 1 ELSE 0)

C5_OneOutstanding ==
    /\ Outstanding <= 1
    /\ Outstanding = nSent - nRecv
    /\ pc \in {"warm_send", "timed_send"} => nSent = nRecv
    /\ pc \in {"warm_recv", "timed_recv"} => nSent = nRecv + 1
    /\ srvPc = "recv" => srvMsg = <<>>
    /\ srvPc = "send" => srvMsg # <<>> /\ srvMsg.seq = nSent /\ srvMsg.conn = sock
    /\ \A k \in 1..Len(repQ) : repQ[k].seq = nSent /\ repQ[k].conn = sock
    /\ \A k \in 1..Len(reqQ) : reqQ[k].seq = nSent /\ reqQ[k].conn = sock

C5_Witness ==
    /\ pc = "timed_recv"
    /\ nSent = 4
    /\ repQ # <<>>

\* C6: a run that has returned used one connection of its own, for exactly a
\* warm-up exchange and then a timed exchange, and closed it; there is one
\* connection per call and no connection is open outside a call.
RunEvents == <<"connect", "warm_send", "warm_recv", "timed_send", "timed_recv", "close">>

C7_OrderedRuns ==
    /\ \A n \in 1..Len(runOrder) : runOrder[n] = ((n - 1) \div num_runs) + 1
    /\ (pc = "bench" /\ ci <= Len(chunk_sizes)) =>
          /\ Len(runOrder) = (ci - 1) * num_runs + ri
          /\ Len(run_results) = ri
          /\ Len(results) = ci - 1
    /\ pc = "report" =>
          /\ Len(runOrder) = Len(chunk_sizes) * num_runs
          /\ Len(results) = Len(chunk_sizes)
          /\ \A k \in 1..Len(results) : results[k].chunk_size = chunk_sizes[k]

C7_Witness ==
    /\ pc = "report"
    /\ num_runs = 2
    /\ Len(results) = 2
    /\ chunk_sizes[1] > chunk_sizes[2]
    /\ chunk_sizes[2] >= 1

\* C8 as claimed: every run for a chunk size <= 0 faults, and there is no
\* BenchmarkResult with a chunk size <= 0.
C8_InvalidChunkFaults ==
    /\ \A r \in AllResults : r.chunk_size >= 1
    /\ (runOrder # <<>> /\ chunk_sizes[Last(runOrder)] <= 0) =>
          (fault # "none" /\ pc \in {"cleanup", "exit"})

\* C8 amended: a run for chunk size 0 faults with ValueError, which leaves
\* run_benchmark (no result has chunk size 0); a run for a negative chunk size
\* does not fault in the chunking: its frame set is the header alone and a
\* result it produces has num_frames = 1.
C8_ZeroChunkFaults ==
    /\ \A r \in AllResults : r.chunk_size # 0
    /\ \A r \in AllResults : r.chunk_size < 0 => r.num_frames = 1
    /\ (runOrder # <<>> /\ chunk_sizes[Last(runOrder)] = 0) =>
          (fault = "ValueError" /\ pc \in {"cleanup", "exit"} /\ best = <<>>)
    /\ (InExchange /\ chunk_size < 0) => frames = <<header>>

C8_Witness ==
    /\ chunk_sizes = <<0 - 1, 0>>
    /\ fault = "ValueError"
    /\ Len(results) = 1
    /\ results[1].chunk_size < 0
    /\ data_size = 2

\* C9: the best-latency result has minimal latency_ms and is the first such
\* in the list; the best-throughput result has maximal throughput_mbps and is
\* the first such in the list.
C9_BestIsFirstExtreme ==
    best # <<>> =>
        /\ best[1] \in 1..Len(results)
        /\ best[2] \in 1..Len(results)
        /\ \A k \in 1..Len(results) :
              /\ ~RatLess(results[k].latency_ms, results[best[1]].latency_ms)
              /\ k < best[1] => RatLess(results[best[1]].latency_ms, results[k].latency_ms)
              /\ ~RatLess(results[best[2]].throughput_mbps, results[k].throughput_mbps)
              /\ k < best[2] =>
                    RatLess(results[k].throughput_mbps, results[best[2]].throughput_mbps)

C9_Witness ==
    /\ Len(results) = 3
    /\ best = <<2, 1>>
    /\ results[3].latency_ms = results[2].latency_ms
    /\ results[3].throughput_mbps = results[1].throughput_mbps

\* C10: while the reply has not arrived the main thread does nothing at all (no
\* timeout, no resend, no next run, no result); and once the responder is gone
\* with no reply on the wire, that remains so.
Blocked == pc \in {"warm_recv", "timed_recv"} /\ ~ReplyReady

Stalled == Blocked /\ srvPc \in {"dead", "done"} /\ repQ = <<>>

C10_BlockedForever ==
    [][(Blocked => UNCHANGED drvVars) /\ (Stalled => Stalled')]_vars

C10_Witness ==
    /\ pc = "timed_recv"
    /\ srvPc = "dead"
    /\ repQ = <<>>
    /\ ci = 2

====
